---- MODULE Spec2Model ----
(***************************************************************************)
(* Model of the tool-calling notebook Vertex_tool_calling_for_Llama_4:     *)
(* the two `main` drivers (OpenAI SDK and Vertex SDK), the two             *)
(* get_exchange_rate implementations and the tool declaration.             *)
(*                                                                         *)
(* One run of `main` is modelled.  The model endpoint and the exchange     *)
(* rate service are the environment: what they answer, and whether they    *)
(* fault, is chosen nondeterministically at the step that calls them.      *)
(* `trace` is a history variable that records, in program order, every     *)
(* model query, tool execution and printed line.                           *)
(***************************************************************************)
EXTENDS Integers, Sequences, FiniteSets, TLC

VARIABLES
    sdk,            \* which notebook section runs: "openai" or "vertex"
    pc,             \* position of main
    user_query,     \* main's local user_query
    messages,       \* openai: the global `messages`; vertex: chat.history
    completion,     \* first model response (completion / response)
    i,              \* index of tool_call in the for loop (1-based)
    result,         \* main's local result
    final_response, \* main's local final_response
    globals,        \* names defined in the notebook kernel before main runs
    output,         \* lines printed so far
    trace,          \* history: query / exec / print events in order
    first_run,      \* what the OpenAI section did, kept while the Vertex section runs
    registry        \* the tool declarations of the section, and whether their cell has run

vars == <<sdk, pc, user_query, messages, completion, i, result,
          final_response, globals, output, trace, first_run, registry>>

-----------------------------------------------------------------------------
(* Bounds of the model *)

\* longest tool_calls list of a model response
MaxCalls == 2

-----------------------------------------------------------------------------
(* Values *)

Variants == {"openai", "vertex"}

\* Python's None
None == "None"

ArgKeys == {"currency_date", "currency_from", "currency_to"}

ArgValue(k) ==
    CASE k = "currency_date" -> "2024-01-02"
      [] k = "currency_from" -> "USD"
      [] k = "currency_to"   -> "EUR"

\* argument objects the model may produce: any subset of the declared keys
ArgObjects == { [k \in K |-> ArgValue(k)] : K \in SUBSET ArgKeys }

UserQueries == {"100 usd to eur"}

-----------------------------------------------------------------------------
(* JSON text of tool-call arguments.  A text is a sequence of tokens, each a  *)
(* triple of strings: <<"{","","">>, <<"pair",key,value>>, <<"}","","">>, or  *)
(* <<"word",w,"">> for anything else.                                        *)

LBrace == <<"{", "", "">>
RBrace == <<"}", "", "">>

KeyOrder == <<"currency_date", "currency_from", "currency_to">>

\* json.dumps of an argument object
json_dumps(o) ==
    <<LBrace>>
    \o SelectSeq([n \in 1..Len(KeyOrder) |->
                    <<"pair", KeyOrder[n],
                      IF KeyOrder[n] \in DOMAIN o THEN o[KeyOrder[n]] ELSE "">>],
                 LAMBDA t : t[2] \in DOMAIN o)
    \o <<RBrace>>

NotJson == << <<"word", "not", "">>, <<"word", "json", "">> >>

\* an object text cut off before its closing brace
Truncated == << LBrace, <<"pair", "currency_from", "USD">> >>

\* json.loads raises JSONDecodeError exactly when this is FALSE
json_valid(raw) ==
    /\ Len(raw) >= 2
    /\ raw[1] = LBrace
    /\ raw[Len(raw)] = RBrace
    /\ \A n \in 2..(Len(raw) - 1) : raw[n][1] = "pair"

\* json.loads of a valid text: the dict of its pairs, a later pair winning
json_loads(raw) ==
    LET idx  == 2..(Len(raw) - 1)
        keys == { raw[n][2] : n \in idx }
        last(k) == CHOOSE n \in idx :
                      /\ raw[n][2] = k
                      /\ \A m \in idx : raw[m][2] = k => m <= n
    IN  [k \in keys |-> raw[last(k)][3]]

\* dict.get(key, default)
get(args, key, default) == IF key \in DOMAIN args THEN args[key] ELSE default

-----------------------------------------------------------------------------
(* The tool declaration *)

tools ==
    << [type |-> "function",
        name |-> "get_exchange_rate",
        properties |-> {"currency_date", "currency_from", "currency_to"},
        required |-> {"currency_from", "currency_to"}] >>

get_exchange_rate_func ==
    [name |-> "get_exchange_rate",
     properties |-> {"currency_date", "currency_from", "currency_to"},
     required |-> {"currency_from", "currency_to"}]

\* a request that carries no tools parameter
NoTools == <<>>

-----------------------------------------------------------------------------
(* get_exchange_rate and the exchange-rate service *)

\* what the service does with one GET: a 2xx JSON body, a non-2xx status,
\* or no answer at all (connection error, timeout)
ServiceOutcomes == {"ok", "non_2xx", "network_error"}

\* requests.get(url, params=params): a parameter whose value is None is left out
Request(currency_date, currency_from, currency_to) ==
    LET params == [k \in {"from", "to"} |->
                      IF k = "from" THEN currency_from ELSE currency_to]
    IN  [url    |-> <<"https://api.frankfurter.app/", currency_date>>,
         params |-> [k \in {k \in DOMAIN params : params[k] # None} |-> params[k]]]

\* the JSON body of a 2xx answer to a request
ResponseJson(req) == [answers |-> req]

\* no JSON body was read
NoJson == [answers |-> [url |-> <<>>, params |-> [k \in {} |-> ""]]]

\* str(e) of the exception raised inside the try block
ErrorText(outcome) ==
    IF outcome = "non_2xx" THEN "HTTPError" ELSE "ConnectionError"

\* get_exchange_rate of the OpenAI section: a string in both cases
get_exchange_rate_openai(currency_date, currency_from, currency_to, outcome) ==
    LET req == Request(currency_date, currency_from, currency_to)
    IN  IF outcome = "ok"
        THEN [form |-> "str", ok |-> TRUE,  json |-> ResponseJson(req), error |-> <<>>]
        ELSE [form |-> "str", ok |-> FALSE, json |-> NoJson,
              error |-> <<"Error fetching exchange rate: ", ErrorText(outcome)>>]

\* get_exchange_rate of the Vertex section: a dict in both cases
get_exchange_rate_vertex(currency_date, currency_from, currency_to, outcome) ==
    LET req == Request(currency_date, currency_from, currency_to)
    IN  IF outcome = "ok"
        THEN [form |-> "dict", ok |-> TRUE,  json |-> ResponseJson(req), error |-> <<>>]
        ELSE [form |-> "dict", ok |-> FALSE, json |-> NoJson,
              error |-> <<"error", ErrorText(outcome)>>]

\* mutant: a failed request is sent a second time
SentWithRetry(currency_date, currency_from, currency_to, outcome) ==
    LET req == Request(currency_date, currency_from, currency_to)
    IN  IF outcome = "ok" THEN <<req>> ELSE <<req, req>>

\* the outbound requests of one call of get_exchange_rate: the one
\* requests.get of the try block; the except clause returns without another
Sent(currency_date, currency_from, currency_to, outcome) ==
    <<Request(currency_date, currency_from, currency_to)>>

get_exchange_rate(s, currency_date, currency_from, currency_to, outcome) ==
    IF s = "openai"
    THEN get_exchange_rate_openai(currency_date, currency_from, currency_to, outcome)
    ELSE get_exchange_rate_vertex(currency_date, currency_from, currency_to, outcome)

-----------------------------------------------------------------------------
(* Responses of the model endpoint *)

\* the text of the response to the q-th model query of the run
Text(q) == <<"answer", q>>

\* the argument objects drawn at position n of a tool_calls list: every object
\* at the first position, the complete and the empty one further on
ArgObjectsAt(n) ==
    IF n = 1 THEN ArgObjects
    ELSE { [k \in ArgKeys |-> ArgValue(k)], [k \in {} |-> ""] }

\* the argument texts drawn at position n: valid ones and invalid ones
RawArgumentsAt(n) ==
    { json_dumps(o) : o \in ArgObjectsAt(n) }
    \cup (IF n = 1 THEN {NotJson, Truncated} ELSE {NotJson})

\* tool calls the OpenAI-compatible endpoint can put at position n of its
\* q-th response: the arguments are JSON text, possibly not valid
OpenAIToolCalls(q, n) ==
    { [id |-> <<q, n>>, function |-> [name |-> "get_exchange_rate", arguments |-> r]]
        : r \in RawArgumentsAt(n) }
    \cup { [id |-> <<q, n>>,
            function |-> [name |-> "unknown_tool",
                          arguments |-> json_dumps([k \in {} |-> ""])]] }

\* function calls of the Vertex SDK: the arguments are already a mapping
VertexFunctionCalls(n) ==
    { [name |-> "get_exchange_rate", args |-> o] : o \in ArgObjectsAt(n) }
    \cup { [name |-> "unknown_tool", args |-> [k \in {} |-> ""]] }

\* the tool calls drawn at position n of the first response
CallsAt(s, n) ==
    IF s = "openai" THEN OpenAIToolCalls(1, n) ELSE VertexFunctionCalls(n)

\* the tool_calls lists of length len
RECURSIVE CallLists(_, _)
CallLists(s, len) ==
    IF len = 0 THEN { <<>> }
    ELSE { Append(l, c) : l \in CallLists(s, len - 1), c \in CallsAt(s, len) }

\* a response to the first query: zero to MaxCalls tool calls
FirstResponses(s) ==
    IF s = "openai"
    THEN { [role |-> "assistant", content |-> Text(1), tool_calls |-> l]
             : l \in UNION { CallLists(s, len) : len \in 0..MaxCalls } }
    ELSE { [role |-> "model", text |-> Text(1), function_calls |-> l]
             : l \in UNION { CallLists(s, len) : len \in 0..MaxCalls } }

\* a response to the q-th query, q > 1: text, with or without one more tool call
FollowUpResponses(s, q) ==
    IF s = "openai"
    THEN { [role |-> "assistant", content |-> Text(q), tool_calls |-> l]
             : l \in { <<>>,
                       << [id |-> <<q, 1>>,
                           function |-> [name |-> "get_exchange_rate",
                                         arguments |-> json_dumps([k \in {} |-> ""])]] >> } }
    ELSE { [role |-> "model", text |-> Text(q), function_calls |-> l]
             : l \in { <<>>,
                       << [name |-> "get_exchange_rate", args |-> [k \in {} |-> ""]] >> } }

\* completion.choices[0].message.tool_calls / response.candidates[0].function_calls
tool_calls(s, response) ==
    IF s = "openai" THEN response.tool_calls ELSE response.function_calls

\* tool_call.function.name / function_call.name
name(s, tool_call) ==
    IF s = "openai" THEN tool_call.function.name ELSE tool_call.name

\* completion.choices[0].message.content / response.text
content(s, response) ==
    IF s = "openai" THEN response.content ELSE response.text

\* the value of completion / final_response before it is assigned
NoResponse(s) ==
    IF s = "openai"
    THEN [role |-> "none", content |-> <<>>, tool_calls |-> <<>>]
    ELSE [role |-> "none", text |-> <<>>, function_calls |-> <<>>]

\* the value of result before it is assigned
NoResult == [form |-> "none", ok |-> FALSE, json |-> NoJson, error |-> <<>>]

-----------------------------------------------------------------------------
(* History *)

QueryEvents == SelectSeq(trace, LAMBDA e : e.type = "query")

\* a model query: what was sent, and whether the endpoint faulted
QueryEvent(transcript, tls, fault) ==
    [type |-> "query", q |-> Len(QueryEvents) + 1, messages |-> transcript,
     tools |-> tls, fault |-> fault]

-----------------------------------------------------------------------------
(* main *)

\* `messages` as the kernel may hold it when the OpenAI main starts: the
\* notebook never assigns it, so it is either absent or left by an earlier cell
PriorMessages == { <<>> } \cup { << [role |-> "user", content |-> u] >> : u \in UserQueries }

\* no section has been run before this one
NoRun == [pc |-> "none", user_query |-> "", completion |-> NoResponse("openai"),
          output |-> <<>>, trace |-> <<>>]

Init ==
    /\ sdk \in Variants
    /\ pc = "input"
    /\ user_query = ""
    /\ globals \in (IF sdk = "openai" THEN { {}, {"messages"} } ELSE { {} })
    /\ messages \in (IF "messages" \in globals THEN PriorMessages ELSE { <<>> })
    /\ completion = NoResponse(sdk)
    /\ final_response = NoResponse(sdk)
    /\ i = 0
    /\ result = NoResult
    /\ output = <<>>
    /\ trace = <<>>
    /\ first_run = NoRun
    /\ registry = [declarations |-> IF sdk = "openai" THEN tools
                                     ELSE <<get_exchange_rate_func>>,
                   state |-> "constructed"]

\* user_query = input(...)
ReadInput ==
    /\ pc = "input"
    /\ \E u \in UserQueries : user_query' = u
    /\ pc' = "first_query"
    /\ UNCHANGED <<registry, first_run, sdk, messages, completion, i, result, final_response,
                   globals, output, trace>>

\* the turn chat.send_message(user_query) adds for the user's text
UserTurn(text) == [role |-> "user", content |-> text]

\* the transcript the first query sends
FirstTranscript ==
    IF sdk = "openai" THEN messages ELSE Append(messages, UserTurn(user_query))

\* the tools parameter of the first query
FirstTools == IF sdk = "openai" THEN tools ELSE <<get_exchange_rate_func>>

\* mutant: the fault is caught and the query is sent again
OnEndpointFaultRetry(p) == p

\* an exception of the model endpoint is not caught anywhere in main
OnEndpointFault(p) == "raised"

\* `messages` is evaluated as an argument of create() before the call is made
FirstQueryNameError ==
    /\ pc = "first_query"
    /\ sdk = "openai"
    /\ "messages" \notin globals
    /\ trace' = Append(trace, [type |-> "raise", error |-> "NameError"])
    /\ pc' = "raised"
    /\ UNCHANGED <<registry, first_run, sdk, user_query, messages, completion, i, result,
                   final_response, globals, output>>

FirstQueryFault ==
    /\ pc = "first_query"
    /\ sdk = "openai" => "messages" \in globals
    /\ trace' = Append(trace, QueryEvent(FirstTranscript, FirstTools, TRUE))
    /\ pc' = OnEndpointFault(pc)
    /\ UNCHANGED <<registry, first_run, sdk, user_query, messages, completion, i, result,
                   final_response, globals, output>>

FirstQueryOk ==
    /\ pc = "first_query"
    /\ sdk = "openai" => "messages" \in globals
    /\ \E r \in FirstResponses(sdk) :
          /\ completion' = r
          /\ messages' = IF sdk = "openai" THEN messages
                         ELSE Append(FirstTranscript, r)
    /\ trace' = Append(trace, QueryEvent(FirstTranscript, FirstTools, FALSE))
    /\ pc' = "branch"
    /\ UNCHANGED <<registry, first_run, sdk, user_query, i, result, final_response, globals, output>>

\* mutant: the test is `is not None`, which an empty list passes
HasToolCallsNotNone(s, response) == Len(tool_calls(s, response)) >= 0

\* `if completion.choices[0].message.tool_calls:` (None and [] are both falsy)
HasToolCalls(s, response) == Len(tool_calls(s, response)) > 0

\* print("Direct response:", ...) / print("Final response:", ...)
Line(label, text) == [label |-> label, text |-> text]

DirectResponse ==
    /\ pc = "branch"
    /\ ~HasToolCalls(sdk, completion)
    /\ output' = Append(output, Line("Direct response:", content(sdk, completion)))
    /\ trace' = Append(trace, [type |-> "print",
                               line |-> Line("Direct response:", content(sdk, completion))])
    /\ pc' = "done"
    /\ UNCHANGED <<registry, first_run, sdk, user_query, messages, completion, i, result,
                   final_response, globals>>

EnterLoop ==
    /\ pc = "branch"
    /\ HasToolCalls(sdk, completion)
    /\ i' = 1
    /\ pc' = "loop"
    /\ UNCHANGED <<registry, first_run, sdk, user_query, messages, completion, result,
                   final_response, globals, output, trace>>

\* mutant: the tool calls of the latest follow-up response join the list
LoopCallsWithLatest(s, first, latest) == tool_calls(s, first) \o tool_calls(s, latest)

\* the list the for statement iterates: the tool calls of the first response
LoopCalls(s, first, latest) == tool_calls(s, first)

\* mutant: the for statement takes the same tool call again
SameToolCall(index) == index

\* the for statement takes the next tool call of the list
NextToolCall(index) == index + 1

\* `if tool_call.function.name == "get_exchange_rate":`
IsDispatched(s, tool_call) == name(s, tool_call) = "get_exchange_rate"

\* the for loop has run out of tool calls: main returns
LoopExit ==
    /\ pc = "loop"
    /\ i > Len(LoopCalls(sdk, completion, final_response))
    /\ pc' = "done"
    /\ UNCHANGED <<registry, first_run, sdk, user_query, messages, completion, i, result,
                   final_response, globals, output, trace>>

\* a tool call of another name has no branch: the loop moves on
SkipToolCall ==
    /\ pc = "loop"
    /\ i <= Len(LoopCalls(sdk, completion, final_response))
    /\ ~IsDispatched(sdk, LoopCalls(sdk, completion, final_response)[i])
    /\ i' = NextToolCall(i)
    /\ UNCHANGED <<registry, first_run, sdk, pc, user_query, messages, completion, result,
                   final_response, globals, output, trace>>

\* json.loads(tool_call.function.arguments) can be evaluated / function_call.args
ArgsReadable(s, tool_call) ==
    IF s = "openai" THEN json_valid(tool_call.function.arguments) ELSE TRUE

\* args = json.loads(tool_call.function.arguments) / args = function_call.args
Args(s, tool_call) ==
    IF s = "openai" THEN json_loads(tool_call.function.arguments) ELSE tool_call.args

\* mutant: the default is left out
currency_date_no_default(args) == get(args, "currency_date", None)

\* args.get("currency_date", "latest")
currency_date(args) == get(args, "currency_date", "latest")

\* args.get("currency_from")
currency_from(args) == get(args, "currency_from", None)

\* args.get("currency_to")
currency_to(args) == get(args, "currency_to", None)

\* mutant: the turn is tagged with the id of the response's first tool call
ToolTurnFirstId(s, tool_call, res) ==
    IF s = "openai"
    THEN [role |-> "tool", tool_call_id |-> tool_calls(s, completion)[1].id,
          content |-> res]
    ELSE [role |-> "function", name |-> "get_exchange_rate", response |-> res]

\* the dict appended after the model's message (OpenAI), or the Content sent
\* with the follow-up message (Vertex), for one tool result
ToolTurn(s, tool_call, res) ==
    IF s = "openai"
    THEN [role |-> "tool", tool_call_id |-> tool_call.id, content |-> res]
    ELSE [role |-> "function", name |-> "get_exchange_rate", response |-> res]

\* mutant: the model's message is not appended before the tool message
AppendedWithoutAnnouncement(list, response, tool_call, res) ==
    list \o <<ToolTurn("openai", tool_call, res)>>

\* mutant: the list is rebuilt from the two new messages
AppendedToNothing(list, response, tool_call, res) ==
    <<response, ToolTurn("openai", tool_call, res)>>

\* the list after messages.append(completion.choices[0].message) and
\* messages.append({"role": "tool", ...})
Appended(list, response, tool_call, res) ==
    list \o <<response, ToolTurn("openai", tool_call, res)>>

\* json.loads raises inside main, which has no handler
ArgumentsFault ==
    /\ pc = "loop"
    /\ i <= Len(LoopCalls(sdk, completion, final_response))
    /\ LET tool_call == LoopCalls(sdk, completion, final_response)[i]
       IN  /\ IsDispatched(sdk, tool_call)
           /\ ~ArgsReadable(sdk, tool_call)
    /\ trace' = Append(trace, [type |-> "raise", error |-> "JSONDecodeError"])
    /\ pc' = "raised"
    /\ UNCHANGED <<registry, first_run, sdk, user_query, messages, completion, i, result,
                   final_response, globals, output>>

\* the body of the if statement up to the follow-up query: read the
\* arguments, call get_exchange_rate, and (OpenAI) append the two messages
ExecuteTool ==
    /\ pc = "loop"
    /\ i <= Len(LoopCalls(sdk, completion, final_response))
    /\ LET tool_call == LoopCalls(sdk, completion, final_response)[i]
       IN  /\ IsDispatched(sdk, tool_call)
           /\ ArgsReadable(sdk, tool_call)
           /\ \E outcome \in ServiceOutcomes :
                LET args == Args(sdk, tool_call)
                    res  == get_exchange_rate(sdk, currency_date(args),
                                currency_from(args), currency_to(args), outcome)
                IN  /\ result' = res
                    /\ messages' =
                          IF sdk = "openai"
                          THEN Appended(messages, completion, tool_call, res)
                          ELSE messages
                    /\ trace' = Append(trace,
                          [type |-> "exec", index |-> i, tool_call |-> tool_call,
                           args |-> args,
                           request |-> Request(currency_date(args),
                                          currency_from(args), currency_to(args)),
                           requests |-> Sent(currency_date(args),
                                          currency_from(args), currency_to(args), outcome),
                           outcome |-> outcome, result |-> res])
    /\ pc' = "followup"
    /\ UNCHANGED <<registry, first_run, sdk, user_query, completion, i, final_response, globals, output>>

\* mutant: the follow-up query is sent without the tool result
FollowUpTranscriptWithoutResult ==
    IF sdk = "openai" THEN SubSeq(messages, 1, Len(messages) - 1) ELSE messages

\* the transcript the follow-up query sends
FollowUpTranscript ==
    IF sdk = "openai" THEN messages
    ELSE Append(messages,
                ToolTurn(sdk, LoopCalls(sdk, completion, final_response)[i], result))

\* the tools parameter of the follow-up query: the OpenAI call passes none, the
\* Vertex model object carries its tools into every request
FollowUpTools == IF sdk = "openai" THEN NoTools ELSE <<get_exchange_rate_func>>

FollowUpFault ==
    /\ pc = "followup"
    /\ trace' = Append(trace, QueryEvent(FollowUpTranscript, FollowUpTools, TRUE))
    /\ pc' = OnEndpointFault(pc)
    /\ UNCHANGED <<registry, first_run, sdk, user_query, messages, completion, i, result,
                   final_response, globals, output>>

\* the follow-up query answers; its text is printed and the loop goes on
FollowUpOk ==
    /\ pc = "followup"
    /\ \E r \in FollowUpResponses(sdk, Len(QueryEvents) + 1) :
          /\ final_response' = r
          /\ messages' = IF sdk = "openai" THEN messages
                         ELSE Append(FollowUpTranscript, r)
          /\ output' = Append(output, Line("Final response:", content(sdk, r)))
          /\ trace' = trace \o
                << QueryEvent(FollowUpTranscript, FollowUpTools, FALSE),
                   [type |-> "print", line |-> Line("Final response:", content(sdk, r))] >>
    /\ i' = NextToolCall(i)
    /\ pc' = "loop"
    /\ UNCHANGED <<registry, first_run, sdk, user_query, completion, result, globals>>

Next ==
    \/ ReadInput
    \/ FirstQueryNameError
    \/ FirstQueryFault
    \/ FirstQueryOk
    \/ DirectResponse
    \/ EnterLoop
    \/ LoopExit
    \/ SkipToolCall
    \/ ArgumentsFault
    \/ ExecuteTool
    \/ FollowUpFault
    \/ FollowUpOk

Spec == Init /\ [][Next]_vars

\* main runs to its end: a Python call does not stop halfway
FairSpec == Spec /\ WF_vars(Next)

-----------------------------------------------------------------------------
(* Vocabulary of the properties *)

\* the first model response has been received
FirstReceived == completion # NoResponse(sdk)

\* the tool calls of the first model response
FirstCalls == tool_calls(sdk, completion)

\* main has returned or has been left by an exception
Terminated == pc \in {"done", "raised"}

\* some model query of the run met a fault of the endpoint
EndpointFaulted == \E k \in DOMAIN trace : trace[k].type = "query" /\ trace[k].fault

\* positions of the trace that hold an event of the given type
At(type) == { k \in DOMAIN trace : trace[k].type = type }

\* positions of the follow-up queries
FollowUps == { k \in At("query") : trace[k].q > 1 }

\* the turns of the transcript that carry a tool result
ToolTurns(transcript) ==
    SelectSeq(transcript, LAMBDA t : t.role \in {"tool", "function"})

\* the turn carries the id of the given OpenAI tool call
TaggedWithCallId(turn, tool_call) ==
    /\ "tool_call_id" \in DOMAIN turn
    /\ "id" \in DOMAIN tool_call
    /\ turn.tool_call_id = tool_call.id

\* the payload a tool turn carries
Payload(turn) == IF "content" \in DOMAIN turn THEN turn.content ELSE turn.response

Last(seq) == seq[Len(seq)]

-----------------------------------------------------------------------------
(* C1 *)

\* C1: for a first response with N >= 1 tool calls, a follow-up model query
\* is sent only after every one of the N calls has been executed, and the
\* calls are executed each at most once and in response order.
C1_AllCallsBeforeFollowUp ==
    (FirstReceived /\ Len(FirstCalls) >= 1) =>
        /\ \A k \in FollowUps : \A n \in 1..Len(FirstCalls) :
              \E j \in At("exec") : j < k /\ trace[j].index = n
        /\ \A j1, j2 \in At("exec") : j1 < j2 => trace[j1].index < trace[j2].index

-----------------------------------------------------------------------------
(* C2 *)

\* C2: when the first response holds exactly one tool call and it names
\* get_exchange_rate, a run that meets no endpoint fault ends with exactly one
\* tool execution, exactly one tool turn, tagged with that call's id, exactly
\* one follow-up query, and the follow-up's text as its only output.
C2_SingleCallRoundTrip ==
    ( /\ Terminated
      /\ ~EndpointFaulted
      /\ FirstReceived
      /\ Len(FirstCalls) = 1
      /\ name(sdk, FirstCalls[1]) = "get_exchange_rate" ) =>
        /\ Cardinality(At("exec")) = 1
        /\ Len(ToolTurns(messages)) = 1
        /\ TaggedWithCallId(ToolTurns(messages)[1], FirstCalls[1])
        /\ Cardinality(FollowUps) = 1
        /\ output = << Line("Final response:", content(sdk, final_response)) >>
        /\ final_response # NoResponse(sdk)

-----------------------------------------------------------------------------
(* C3 *)

\* C3: once a first response with zero tool calls has been received, no tool
\* is executed, no tool turn is in the transcript, the first query stays the
\* only model query, and the run ends with that response's text as its only
\* output.
C3_DirectAnswer ==
    (FirstReceived /\ Len(FirstCalls) = 0) =>
        /\ At("exec") = {}
        /\ Len(ToolTurns(messages)) = 0
        /\ Cardinality(At("query")) = 1
        /\ pc \in {"branch", "done"}
        /\ pc = "branch" => output = <<>>
        /\ pc = "done" =>
              output = << Line("Direct response:", content(sdk, completion)) >>

\* a run has ended on the direct answer of a response without tool calls
C3_Witness ==
    /\ FirstReceived
    /\ Len(FirstCalls) = 0
    /\ pc = "done"
    /\ Len(output) = 1
    /\ output[1].text = Text(1)

-----------------------------------------------------------------------------
(* C4 *)

\* C4: a run that meets no endpoint fault and ends has, for every tool call
\* of the first response whose name is not get_exchange_rate, an execution
\* with a Failure result that contains the requested name, a tool turn with
\* that result in the transcript, and a follow-up query after it.
C4_UnknownToolFailure ==
    (pc = "done" /\ ~EndpointFaulted /\ FirstReceived) =>
        \A n \in 1..Len(FirstCalls) :
            name(sdk, FirstCalls[n]) # "get_exchange_rate" =>
                \E j \in At("exec") :
                    /\ trace[j].index = n
                    /\ ~trace[j].result.ok
                    /\ \E m \in DOMAIN trace[j].result.error :
                          trace[j].result.error[m] = name(sdk, FirstCalls[n])
                    /\ \E t \in DOMAIN messages :
                          /\ messages[t].role \in {"tool", "function"}
                          /\ Payload(messages[t]) = trace[j].result
                    /\ \E k \in FollowUps : k > j

-----------------------------------------------------------------------------
(* C5 *)

\* C5: arguments that are not valid JSON never make main raise: no
\* JSONDecodeError leaves the executor, and a run that ends without an
\* endpoint fault has a Failure tool turn for every such call.
C5_InvalidArgumentsFailure ==
    /\ \A k \in At("raise") : trace[k].error # "JSONDecodeError"
    /\ (Terminated /\ ~EndpointFaulted /\ FirstReceived /\ sdk = "openai") =>
          \A n \in 1..Len(FirstCalls) :
              ( /\ name(sdk, FirstCalls[n]) = "get_exchange_rate"
                /\ ~json_valid(FirstCalls[n].function.arguments) ) =>
                  \E j \in At("exec") : trace[j].index = n /\ ~trace[j].result.ok

-----------------------------------------------------------------------------
(* C6 *)

\* an execution whose request to the exchange-rate service failed
FailedExecs == { j \in At("exec") : trace[j].outcome # "ok" }

\* the result is a failure payload: the error text, in the section's form
IsFailurePayload(res) ==
    /\ ~res.ok
    /\ res.json = NoJson
    /\ Len(res.error) = 2
    /\ res.error[2] \in {"HTTPError", "ConnectionError"}

\* what follows a failed execution j, the tagging of the turn left open:
\* get_exchange_rate returned a failure payload, main did not stop at the
\* execution, the next event is the follow-up query, its transcript ends with
\* a turn that satisfies Tagged and carries the payload, and when the
\* endpoint answers, the answer's text is printed
FailureFolded(j, Tagged(_, _)) ==
    /\ IsFailurePayload(trace[j].result)
    /\ j = Len(trace) => pc = "followup"
    /\ j < Len(trace) =>
          /\ trace[j + 1].type = "query"
          /\ trace[j + 1].q > 1
          /\ Len(trace[j + 1].messages) > 0
          /\ LET turn == Last(trace[j + 1].messages)
             IN  /\ turn.role \in {"tool", "function"}
                 /\ Tagged(turn, trace[j].tool_call)
                 /\ Payload(turn) = trace[j].result
          /\ trace[j + 1].fault => (pc = "raised" /\ j + 1 = Len(trace))
          /\ ~trace[j + 1].fault =>
                /\ j + 2 <= Len(trace)
                /\ trace[j + 2].type = "print"
                /\ trace[j + 2].line.label = "Final response:"
                /\ trace[j + 2].line.text = Text(trace[j + 1].q)

TaggedForSdk(turn, tool_call) ==
    IF sdk = "openai"
    THEN TaggedWithCallId(turn, tool_call)
    ELSE /\ "tool_call_id" \notin DOMAIN turn
         /\ turn.name = "get_exchange_rate"
         /\ turn.name = tool_call.name

-----------------------------------------------------------------------------
(* C7 *)

\* C7: a model query that met a fault of the endpoint is the last event of
\* the run: main has been left by the exception, and no query (so no retry),
\* no tool execution and no output comes after it.
C7_EndpointFaultFatal ==
    \A k \in At("query") :
        trace[k].fault =>
            /\ k = Len(trace)
            /\ pc = "raised"
            /\ Len(output) = Cardinality({ m \in At("print") : m < k })

\* a follow-up query faulted after a tool was executed
C7_Witness ==
    /\ pc = "raised"
    /\ Len(trace) > 0
    /\ Last(trace).type = "query"
    /\ Last(trace).fault
    /\ Last(trace).q > 1
    /\ At("exec") # {}

-----------------------------------------------------------------------------
(* C8 *)

\* C8: every tool execution is for the tool call at its index in the first
\* response, no index is executed twice, and every follow-up query comes
\* directly after such an execution: the tool calls of a follow-up response
\* are never executed and never cause a model query.
C8_OneRound ==
    /\ \A j \in At("exec") :
          /\ trace[j].index \in 1..Len(FirstCalls)
          /\ trace[j].tool_call = FirstCalls[trace[j].index]
    /\ \A j1, j2 \in At("exec") : trace[j1].index = trace[j2].index => j1 = j2
    /\ \A k \in FollowUps : k - 1 \in At("exec")
    /\ Cardinality(At("query")) <= 1 + Len(FirstCalls)

\* a run has ended after a follow-up response that itself held a tool call
C8_Witness ==
    /\ pc = "done"
    /\ Len(tool_calls(sdk, final_response)) > 0
    /\ Cardinality(At("exec")) = Len(FirstCalls)

-----------------------------------------------------------------------------
(* C9 *)

\* C9: a run in which a first response was received and no model query
\* faulted, once it has reached Done, has printed exactly one final answer,
\* the text of the last model response received.
C9_OneFinalAnswer ==
    (pc = "done" /\ FirstReceived /\ ~EndpointFaulted) =>
        /\ Len(output) = 1
        /\ output[1].text = Text(Cardinality(At("query")))

-----------------------------------------------------------------------------
(* C10 *)

\* C10: the request of every get_exchange_rate execution goes to the path of
\* the argument object's currency_date when that key is present and to
\* "latest" when it is absent, and its from and to parameters are the
\* object's currency_from and currency_to.
C10_RequestFromArguments ==
    \A j \in At("exec") :
        LET args == trace[j].args
            req  == trace[j].request
        IN  /\ req.url[1] = "https://api.frankfurter.app/"
            /\ "currency_date" \in DOMAIN args => req.url[2] = args["currency_date"]
            /\ "currency_date" \notin DOMAIN args => req.url[2] = "latest"
            /\ "currency_from" \in DOMAIN args =>
                  /\ "from" \in DOMAIN req.params
                  /\ req.params["from"] = args["currency_from"]
            /\ "currency_to" \in DOMAIN args =>
                  /\ "to" \in DOMAIN req.params
                  /\ req.params["to"] = args["currency_to"]
            /\ trace[j].result.ok => trace[j].result.json = ResponseJson(req)

\* executions with and without a currency_date have both happened, the one
\* without it for arguments that name both currencies
C10_Witness ==
    /\ \E j \in At("exec") :
          /\ DOMAIN trace[j].args = {"currency_from", "currency_to"}
          /\ trace[j].request.url[2] = "latest"
    /\ \E j \in At("exec") : "currency_date" \in DOMAIN trace[j].args

-----------------------------------------------------------------------------
(* C11: the two sections run one after the other against the same model     *)
(* responses and the same tool outcomes                                      *)

\* a Vertex response that presents the same model response as an OpenAI one:
\* the same text and the same tool calls by position and name, the argument
\* mapping being the parsed argument text; for a text that is not valid JSON
\* the mapping the SDK hands over is left open
Corresponds(openai_response, vertex_response) ==
    /\ vertex_response.text = openai_response.content
    /\ Len(vertex_response.function_calls) = Len(openai_response.tool_calls)
    /\ \A n \in DOMAIN openai_response.tool_calls :
          LET tool_call     == openai_response.tool_calls[n]
              function_call == vertex_response.function_calls[n]
          IN  /\ function_call.name = tool_call.function.name
              /\ json_valid(tool_call.function.arguments) =>
                    function_call.args = json_loads(tool_call.function.arguments)

\* the environment of the running section repeats what it did for the
\* OpenAI section: the same user text, the same fault or answer for the q-th
\* model query, the same first response, and the same outcome of the
\* exchange-rate request of the n-th tool call
AgreesWithFirstRun ==
    first_run.pc # "none" =>
        /\ user_query \in {"", first_run.user_query}
        /\ \A k \in At("query") : \A m \in DOMAIN first_run.trace :
              ( /\ first_run.trace[m].type = "query"
                /\ first_run.trace[m].q = trace[k].q ) =>
                  trace[k].fault = first_run.trace[m].fault
        /\ (FirstReceived /\ first_run.completion # NoResponse("openai")) =>
              Corresponds(first_run.completion, completion)
        /\ \A j \in At("exec") : \A m \in DOMAIN first_run.trace :
              ( /\ first_run.trace[m].type = "exec"
                /\ first_run.trace[m].index = trace[j].index ) =>
                  trace[j].outcome = first_run.trace[m].outcome

\* the OpenAI section's main() has ended; the Vertex section's cell is run
RunVertexSection ==
    /\ sdk = "openai"
    /\ Terminated
    /\ first_run.pc = "none"
    /\ first_run' = [pc |-> pc, user_query |-> user_query,
                     completion |-> completion, output |-> output,
                     trace |-> trace]
    /\ sdk' = "vertex"
    /\ registry' = [declarations |-> <<get_exchange_rate_func>>, state |-> "constructed"]
    /\ pc' = "input"
    /\ user_query' = ""
    /\ globals' = {}
    /\ messages' = <<>>
    /\ completion' = NoResponse("vertex")
    /\ final_response' = NoResponse("vertex")
    /\ i' = 0
    /\ result' = NoResult
    /\ output' = <<>>
    /\ trace' = <<>>

\* the notebook run from its first cell: the OpenAI section starts
InitBoth == Init /\ sdk = "openai"

\* a step of the running main(), against the environment of the first run
StepAgreeing == Next /\ AgreesWithFirstRun'

NextBoth ==
    \/ StepAgreeing
    \/ RunVertexSection

SpecBoth == InitBoth /\ [][NextBoth]_vars

\* the tool executions of a run, in order: which call, and the request made
ExecutionsOf(tr) ==
    LET ex == SelectSeq(tr, LAMBDA e : e.type = "exec")
    IN  [n \in 1..Len(ex) |-> [index |-> ex[n].index, request |-> ex[n].request]]

\* the number of model queries a run sent
QueriesOf(tr) == Len(SelectSeq(tr, LAMBDA e : e.type = "query"))

\* both sections have run to their end and each received the first response
BothReceivedAndEnded ==
    /\ sdk = "vertex"
    /\ Terminated
    /\ FirstReceived
    /\ first_run.completion # NoResponse("openai")

\* C11: when both sections have run against the same model responses and the
\* same tool outcomes, they made the same tool executions (same requests, same
\* order), sent the same number of model queries and printed the same answers.
C11_SectionsEquivalent ==
    BothReceivedAndEnded =>
        /\ ExecutionsOf(trace) = ExecutionsOf(first_run.trace)
        /\ QueriesOf(trace) = QueriesOf(first_run.trace)
        /\ output = first_run.output

\* with argument texts that are all valid JSON the two sections do agree
SectionsEquivalentOnValidArguments ==
    ( /\ BothReceivedAndEnded
      /\ \A n \in DOMAIN first_run.completion.tool_calls :
            json_valid(first_run.completion.tool_calls[n].function.arguments) ) =>
        /\ ExecutionsOf(trace) = ExecutionsOf(first_run.trace)
        /\ QueriesOf(trace) = QueriesOf(first_run.trace)
        /\ output = first_run.output

-----------------------------------------------------------------------------
(* C12: the cells that build the tool declarations *)

\* the argument names main reads from a tool call
ArgumentsRead == {"currency_date", "currency_from", "currency_to"}

\* declarations a declaration cell could be written with: any property names
\* and any required names out of the tool's argument names and one more
DeclarableNames == ArgKeys \cup {"amount"}

ToolSpecs(s) ==
    IF s = "openai"
    THEN { [type |-> "function", name |-> "get_exchange_rate",
            properties |-> ps, required |-> rs] :
               ps \in SUBSET DeclarableNames, rs \in SUBSET DeclarableNames }
    ELSE { [name |-> "get_exchange_rate", properties |-> ps, required |-> rs] :
               ps \in SUBSET DeclarableNames, rs \in SUBSET DeclarableNames }

\* required is a subset of the declared property names
RequiredDeclared(toolspec) == toolspec.required \subseteq toolspec.properties

\* before the declaration cell has run
InitRegistry ==
    /\ sdk \in Variants
    /\ pc = "input"
    /\ user_query = ""
    /\ globals = {}
    /\ messages = <<>>
    /\ completion = NoResponse(sdk)
    /\ final_response = NoResponse(sdk)
    /\ i = 0
    /\ result = NoResult
    /\ output = <<>>
    /\ trace = <<>>
    /\ first_run = NoRun
    /\ \E toolspec \in ToolSpecs(sdk) :
          registry = [declarations |-> <<toolspec>>, state |-> "source"]

\* tools = [{...}]: a list display of dict displays, nothing is checked
DeclareTools ==
    /\ sdk = "openai"
    /\ registry.state = "source"
    /\ registry' = [registry EXCEPT !.state = "constructed"]
    /\ UNCHANGED <<sdk, pc, user_query, messages, completion, i, result,
                   final_response, globals, output, trace, first_run>>

\* FunctionDeclaration(name=, description=, parameters=) and Tool(...): the
\* constructors of the Vertex SDK; the declaration of the notebook is
\* accepted, what they do with another one is not in the notebook
DeclareFunction ==
    /\ sdk = "vertex"
    /\ registry.state = "source"
    /\ \E outcome \in {"constructed", "rejected"} :
          /\ registry.declarations = <<get_exchange_rate_func>> => outcome = "constructed"
          /\ registry' = [registry EXCEPT !.state = outcome]
    /\ UNCHANGED <<sdk, pc, user_query, messages, completion, i, result,
                   final_response, globals, output, trace, first_run>>

NextRegistry ==
    \/ DeclareTools
    \/ DeclareFunction

SpecRegistry == InitRegistry /\ [][NextRegistry]_vars

DeclarationsAsWritten ==
    \A toolspec \in {tools[1], get_exchange_rate_func} :
        /\ RequiredDeclared(toolspec)
        /\ ArgumentsRead \subseteq toolspec.properties

-----------------------------------------------------------------------------
(* C13: the user's text in the first query *)

\* C13: the transcript of the first model query ends with the user turn that
\* holds the text main read from the user.
C13_UserTurnLastInFirstQuery ==
    \A k \in At("query") :
        trace[k].q = 1 =>
            /\ trace[k].messages # <<>>
            /\ Last(trace[k].messages) = UserTurn(user_query)

\* the Vertex section alone does send the user's text as the last turn
VertexUserTurnLastInFirstQuery ==
    sdk = "vertex" => C13_UserTurnLastInFirstQuery

-----------------------------------------------------------------------------
(* C14: what every model request carries *)

\* sequence a is an initial part of sequence b
IsPrefix(a, b) == Len(a) <= Len(b) /\ SubSeq(b, 1, Len(a)) = a

\* a later request's transcript holds everything an earlier one held
RequestsCarryFullTranscript ==
    \A k \in At("query") : \A l \in At("query") :
        k < l => IsPrefix(trace[k].messages, trace[l].messages)

\* C14: every model request, the first and each follow-up, carries the full
\* transcript so far together with the tool declarations, unchanged.
C14_EveryRequestCarriesRegistry ==
    /\ RequestsCarryFullTranscript
    /\ \A k \in At("query") : trace[k].tools = registry.declarations

\* the part about the tool declarations holds for the first request and for
\* every request of the Vertex section
FirstAndVertexRequestsCarryRegistry ==
    \A k \in At("query") :
        (trace[k].q = 1 \/ sdk = "vertex") => trace[k].tools = registry.declarations

-----------------------------------------------------------------------------
(* C15: the tool turns of a transcript *)

\* the tool executions before position k of the trace, in order
ExecsBefore(k) ==
    SelectSeq(SubSeq(trace, 1, k - 1), LAMBDA e : e.type = "exec")

\* positions of the transcript that hold a tool turn
ToolTurnsAt(transcript) ==
    { p \in DOMAIN transcript : transcript[p].role \in {"tool", "function"} }

\* the turn is a model turn that announces the tool call
Announces(turn, tool_call) ==
    /\ turn.role \in {"assistant", "model"}
    /\ \E n \in DOMAIN tool_calls(sdk, turn) : tool_calls(sdk, turn)[n] = tool_call

\* in the transcript of every model query, the tool turns are one per tool
\* execution made so far, in the order of the executions, which is the order
\* of the calls in the response; each satisfies Tagged for its call, carries
\* the call's result, and comes after a model turn that announces the call
ToolTurnsPaired(Tagged(_, _)) ==
    \A k \in At("query") :
        LET transcript == trace[k].messages
            turns      == ToolTurns(transcript)
            execs      == ExecsBefore(k)
        IN  /\ Len(turns) = Len(execs)
            /\ \A n \in DOMAIN execs :
                  /\ Tagged(turns[n], execs[n].tool_call)
                  /\ Payload(turns[n]) = execs[n].result
                  /\ \A m \in DOMAIN execs : m < n => execs[m].index < execs[n].index
            /\ \A p \in ToolTurnsAt(transcript) :
                  \E a \in 1..(p - 1) :
                      \E n \in DOMAIN execs :
                          /\ Announces(transcript[a], execs[n].tool_call)
                          /\ Payload(transcript[p]) = execs[n].result

-----------------------------------------------------------------------------
(* C16: the transcript only grows *)

\* C16: across every step the transcript is only appended to: the transcript
\* before the step is an initial part of the transcript after it.
C16_AppendOnly == [][IsPrefix(messages, messages')]_vars

\* two OpenAI tool calls have been executed: the list left by an earlier
\* cell has been appended to twice
C16_Witness ==
    /\ sdk = "openai"
    /\ Len(messages) >= 5
    /\ Len(ToolTurns(messages)) = 2

-----------------------------------------------------------------------------
(* C17: the requests of get_exchange_rate *)

-----------------------------------------------------------------------------
(* C18: main ends, and how much it has done by then *)

\* K: the number of tool calls of the first response (none before it arrives)
K == IF FirstReceived THEN Len(FirstCalls) ELSE 0

\* at most 1 + K model queries and at most K tool executions have been made
WithinBounds ==
    /\ QueriesOf(trace) <= 1 + K
    /\ Cardinality(At("exec")) <= K

-----------------------------------------------------------------------------
(* C19: what comes before a follow-up query *)

\* C19: every follow-up query comes directly after a tool execution, and the
\* transcript it sends ends with the tool turn that carries the result of
\* that execution; there is no follow-up query without an execution before it.
C19_FollowUpAfterExecution ==
    \A k \in FollowUps :
        /\ k > 1
        /\ trace[k - 1].type = "exec"
        /\ Len(trace[k].messages) > 0
        /\ LET turn == Last(trace[k].messages)
           IN  /\ turn.role \in {"tool", "function"}
               /\ TaggedForSdk(turn, trace[k - 1].tool_call)
               /\ Payload(turn) = trace[k - 1].result

\* the follow-up query after the execution of the second tool call was sent
C19_Witness ==
    \E k \in FollowUps :
        /\ k > 1
        /\ trace[k - 1].type = "exec"
        /\ trace[k - 1].index = 2

====
